---- MODULE Spec2Model ----
(***************************************************************************)
(* A model of urban-eats-model.ipynb: the review-scoring notebook.         *)
(*                                                                         *)
(*   Step 3   preprocess_text, binarize_label                              *)
(*   Step 4   TfidfVectorizer(max_features=5000), LogisticRegression()     *)
(*   Step 5   fit_transform, train_test_split, model.fit                   *)
(*   Step 6   dump(model), dump(vectorizer)                                *)
(*   Step 7   load(model), load(vectorizer)                                *)
(*   Step 8/9 sample, transform, predict, calculate_adjusted_aggregate_... *)
(*                                                                         *)
(* Four specifications share the variables:                                *)
(*   SpecScore      one row through calculate_adjusted_aggregate_score     *)
(*   SpecBinarize   data['stars'].apply(binarize_label)                    *)
(*   SpecPreprocess preprocess_text applied to a text and to its result    *)
(*   Spec           the notebook's cells run in order, with interruption   *)
(***************************************************************************)
EXTENDS Integers, Sequences, FiniteSets

VARIABLES
    \* Step 9, one row of sample_data
    sentiment_score, star_rating, subjectivity_score, adjusted_aggregate_score,
    \* Step 3, the 'stars' column and the 'sentiment' column built from it
    stars, sentiment,
    \* preprocess_text: the input, its result, and the result of a second pass
    text, processed_text, reprocessed_text,
    \* the notebook: the cell to run next, the reviews file, data['text']
    pc, csv, data_text,
    \* the kernel's vectorizer and model, and the two files of Step 6
    vectorizer, model, LRM_joblib, vectorizer_joblib,
    \* Step 9: X_sample and the predicted_sentiment_label column
    X_sample, predicted_sentiment_label,
    \* history: the number of Step 4 runs, and every fit of a vectorizer
    generation, fit_log

vars == <<sentiment_score, star_rating, subjectivity_score, adjusted_aggregate_score,
          stars, sentiment, text, processed_text, reprocessed_text,
          pc, csv, data_text, vectorizer, model, LRM_joblib, vectorizer_joblib,
          X_sample, predicted_sentiment_label, generation, fit_log>>

scoreVars == <<sentiment_score, star_rating, subjectivity_score, adjusted_aggregate_score>>
labelVars == <<stars, sentiment>>
textVars == <<text, processed_text, reprocessed_text>>
pipeVars == <<pc, csv, data_text, vectorizer, model, LRM_joblib, vectorizer_joblib,
              X_sample, predicted_sentiment_label, generation, fit_log>>

\* A column no step has filled yet; a filled one holds its row's value.
Empty == <<>>
Filled(col) == col # <<>>
Value(col) == col[1]

(***************************************************************************)
(* Python numbers.  A float is binary floating point: a significand of a   *)
(* fixed number of bits (53 in CPython) and round-to-nearest, ties-to-even *)
(* after every operation.  The model keeps the rounding rule and scales    *)
(* the format down: MantissaBits significand bits, and every value a       *)
(* multiple of 2^-FracBits.  A number is held as its count of such units.  *)
(***************************************************************************)
MantissaBits == 3
GuardBits == 2
FracBits == MantissaBits + GuardBits

RECURSIVE Pow2(_)
Pow2(n) == IF n = 0 THEN 1 ELSE 2 * Pow2(n - 1)

\* 1.0 in units
One == Pow2(FracBits)

\* The spacing of the floats around a magnitude of q units.
RECURSIVE Ulp(_)
Ulp(q) == IF q < Pow2(MantissaBits) THEN 1 ELSE 2 * Ulp(q \div 2)

\* The float nearest to n/d units (d > 0), ties to the even significand.
RoundMag(a, d) ==
    LET step == Ulp(a \div d)
        lo   == (a \div (d * step)) * step
        rem2 == 2 * (a - lo * d)
    IN  IF rem2 < step * d THEN lo
        ELSE IF rem2 > step * d THEN lo + step
        ELSE IF (lo \div step) % 2 = 0 THEN lo ELSE lo + step

Round(n, d) == IF n < 0 THEN -RoundMag(-n, d) ELSE RoundMag(n, d)

IsFloat(x) == Round(x, 1) = x

\* int -> float
FromInt(i) == Round(i * One, 1)
FSub(a, b) == Round(a - b, 1)
FAdd(a, b) == Round(a + b, 1)
FMul(a, b) == Round(a * b, One)
FDiv(a, b) == Round(a * One, b)

\* float('nan'): pandas' missing value; every comparison with it is False.
NaN == 0 - 1000
PyEq(a, b) == a # NaN /\ b # NaN /\ a = b

(***************************************************************************)
(* Step 9: the score aggregator.                                           *)
(***************************************************************************)
SentimentScores == {-2, -1, 0, 1, 2}
StarRatings == 1 .. 5
\* TextBlob's subjectivity: a float in [0.0, 1.0]
Subjectivities == {u \in 0 .. One : IsFloat(u)}

\* weight = u instead of 1 - u
calculate_adjusted_aggregate_score_inverted(s, r, u) ==
    LET normalized_star == FSub(FromInt(r), FromInt(3))
        weight == IF s > 0 THEN u ELSE One
    IN  FDiv(FAdd(FMul(FromInt(s), weight), normalized_star), FromInt(2))

\* the discount applied to every sentiment, not only to positive ones
calculate_adjusted_aggregate_score_always(s, r, u) ==
    LET normalized_star == FSub(FromInt(r), FromInt(3))
        weight == FSub(One, u)
    IN  FDiv(FAdd(FMul(FromInt(s), weight), normalized_star), FromInt(2))

\* normalized_star = star_rating - 2
calculate_adjusted_aggregate_score_offset(s, r, u) ==
    LET normalized_star == FSub(FromInt(r), FromInt(2))
        weight == IF s > 0 THEN FSub(One, u) ELSE One
    IN  FDiv(FAdd(FMul(FromInt(s), weight), normalized_star), FromInt(2))

\* no division by 2
calculate_adjusted_aggregate_score_sum(s, r, u) ==
    LET normalized_star == FSub(FromInt(r), FromInt(3))
        weight == IF s > 0 THEN FSub(One, u) ELSE One
    IN  FAdd(FMul(FromInt(s), weight), normalized_star)

calculate_adjusted_aggregate_score(s, r, u) ==
    LET normalized_star == FSub(FromInt(r), FromInt(3))
        weight == IF s > 0 THEN FSub(One, u) ELSE One
    IN  FDiv(FAdd(FMul(FromInt(s), weight), normalized_star), FromInt(2))

ScoreIdle ==
    /\ sentiment_score = 0
    /\ star_rating = 3
    /\ subjectivity_score = 0
    /\ adjusted_aggregate_score = Empty

InitScore ==
    /\ sentiment_score \in SentimentScores
    /\ star_rating \in StarRatings
    /\ subjectivity_score \in Subjectivities
    /\ adjusted_aggregate_score = Empty

\* sample_data.apply(lambda row: calculate_adjusted_aggregate_score(...), axis=1)
ApplyAdjustedAggregateScore ==
    /\ ~Filled(adjusted_aggregate_score)
    /\ adjusted_aggregate_score' =
          <<calculate_adjusted_aggregate_score(sentiment_score, star_rating,
                                               subjectivity_score)>>
    /\ UNCHANGED <<sentiment_score, star_rating, subjectivity_score>>

(***************************************************************************)
(* Properties of the score aggregator, checked under SpecScore.            *)
(***************************************************************************)
Scored == Filled(adjusted_aggregate_score)
Score == Value(adjusted_aggregate_score)

C3_PositiveMonotoneInSubjectivity ==
    (Scored /\ sentiment_score > 0) =>
        \A u \in Subjectivities :
            LET other == calculate_adjusted_aggregate_score(sentiment_score, star_rating, u)
            IN  /\ subjectivity_score <= u => Score >= other
                /\ u <= subjectivity_score => other >= Score

\* a positive row that some larger subjectivity scores strictly lower
C3_Witness ==
    /\ Scored
    /\ sentiment_score = 2
    /\ subjectivity_score = One \div 4
    /\ \E u \in Subjectivities :
          /\ u > subjectivity_score
          /\ calculate_adjusted_aggregate_score(sentiment_score, star_rating, u) < Score

\* The formula of the design, section 4.5, in the arithmetic of the code.
adjusted_score_reference(s, r, u) ==
    LET normalized_star == FromInt(r - 3)
        positive_part == FMul(FromInt(s), FSub(FromInt(1), u))
        plain_part == FromInt(s)
    IN  FDiv(FAdd(IF s > 0 THEN positive_part ELSE plain_part, normalized_star),
             FromInt(2))

C10_BoundsOnlyAtZeroSubjectivity ==
    Scored =>
        /\ -2 * One <= Score /\ Score <= 2 * One
        /\ Score = -2 * One => (sentiment_score = -2 /\ star_rating = 1)
        /\ Score = 2 * One =>
              (sentiment_score = 2 /\ star_rating = 5 /\ subjectivity_score = 0)

\* The subjectivities u that rounding absorbs: u below 1.5 times the spacing
\* of the floats under 1.0 (1.5 * 2^-53 for CPython's floats).  For these
\* 1 - u is 1.0 or the float just below it, and 2 * (1 - u) + 2 rounds to 4.0.
RoundsAway(u) == u * Pow2(MantissaBits + 1) < 3 * One

\* C10 as amended: the result lies in [-2, 2]; -2 is reached exactly at
\* (s=-2, r=1); 2 is reached exactly at s=2, r=5 and a subjectivity so small
\* that rounding absorbs it, which includes u = 0 and is not only u = 0.
C10_BoundsOnlyAtNegligibleSubjectivity ==
    Scored =>
        /\ -2 * One <= Score /\ Score <= 2 * One
        /\ Score = -2 * One <=> (sentiment_score = -2 /\ star_rating = 1)
        /\ Score = 2 * One <=>
              (sentiment_score = 2 /\ star_rating = 5 /\ RoundsAway(subjectivity_score))

\* a row that scores 2.0 with a subjectivity that is not 0
C10_Witness ==
    /\ Scored
    /\ Score = 2 * One
    /\ subjectivity_score > 0

(***************************************************************************)
(* Step 3: the label binarizer.                                            *)
(***************************************************************************)
Labels == {"Very Negative", "Negative", "Neutral", "Positive", "Very Positive"}

\* what the 'stars' column may hold: the five ratings, integers around
\* them, and a missing value
StarValues == (-1 .. 6) \cup {NaN}

MaxRows == 2

\* the 4-star branch returning the 5-star label
binarize_label_merged(rating) ==
    IF PyEq(rating, 1) THEN "Very Negative"
    ELSE IF PyEq(rating, 2) THEN "Negative"
    ELSE IF PyEq(rating, 3) THEN "Neutral"
    ELSE "Very Positive"

binarize_label(rating) ==
    IF PyEq(rating, 1) THEN "Very Negative"
    ELSE IF PyEq(rating, 2) THEN "Negative"
    ELSE IF PyEq(rating, 3) THEN "Neutral"
    ELSE IF PyEq(rating, 4) THEN "Positive"
    ELSE "Very Positive"

LabelIdle ==
    /\ stars = <<>>
    /\ sentiment = <<>>

InitBinarize ==
    /\ stars \in UNION {[1 .. n -> StarValues] : n \in 1 .. MaxRows}
    /\ sentiment = <<>>

\* data['sentiment'] = data['stars'].apply(binarize_label), row by row
ApplyBinarizeLabel ==
    /\ Len(sentiment) < Len(stars)
    /\ sentiment' = Append(sentiment, binarize_label(stars[Len(sentiment) + 1]))
    /\ UNCHANGED stars

(***************************************************************************)
(* Properties of the label binarizer, checked under SpecBinarize.          *)
(***************************************************************************)
Binarized == 1 .. Len(sentiment)

\* C1: a rating outside {1,2,3,4,5} (0, 6, -1, a missing value) is rejected:
\* its row never receives one of the five sentiment categories.
C1_InvalidRatingRejected ==
    \A i \in Binarized : stars[i] \notin StarRatings => sentiment[i] \notin Labels

\* The mapping of the design, section 4.2.
CategoryOf(rating) ==
    CASE rating = 1 -> "Very Negative"
      [] rating = 2 -> "Negative"
      [] rating = 3 -> "Neutral"
      [] rating = 4 -> "Positive"
      [] rating = 5 -> "Very Positive"

\* C5: on {1,2,3,4,5} binarize_label is a total, deterministic bijection
\* onto the five categories, 1->Very Negative ... 5->Very Positive: every
\* valid row gets its category, distinct ratings get distinct labels, equal
\* ratings equal labels, and every category is the label of some rating.
C5_BinarizeIsBijection ==
    /\ \A i \in Binarized :
          stars[i] \in StarRatings =>
              /\ sentiment[i] = CategoryOf(stars[i])
              /\ stars[i] = 3 => sentiment[i] = "Neutral"
    /\ \A i, j \in Binarized :
          (stars[i] \in StarRatings /\ stars[j] \in StarRatings) =>
              (stars[i] = stars[j] <=> sentiment[i] = sentiment[j])
    /\ \A l \in Labels : \E r \in StarRatings : binarize_label(r) = l

\* a column with the ratings 3 and 4, both binarized
C5_Witness ==
    /\ stars = <<3, 4>>
    /\ sentiment = <<"Neutral", "Positive">>

(***************************************************************************)
(* Step 3: the text normalizer.                                            *)
(*                                                                         *)
(* A text is the sequence of its chunks: a chunk is a maximal run of word  *)
(* characters ([A-Za-z0-9_], a word in some casing) or one non-word        *)
(* character (" " for whitespace, "!" for any other), so no two word       *)
(* chunks are adjacent.  The words are a small lexicon with NLTK's facts   *)
(* about them: the, can, not are in stopwords.words('english'); WordNet's  *)
(* noun lemma of cans is can and of foods is food; the Treebank tokenizer  *)
(* splits cannot into can and not.                                         *)
(***************************************************************************)
WordChunks == {"the", "The", "can", "cans", "Cans", "cannot", "not",
               "food", "foods", "cold", "late"}
NonWordChunks == {" ", "!"}
Chunks == WordChunks \cup NonWordChunks

IsText(t) ==
    \A i \in 1 .. Len(t) - 1 : ~(t[i] \in WordChunks /\ t[i + 1] \in WordChunks)

\* str.lower() of one chunk
LowerChunk(c) ==
    CASE c = "The" -> "the"
      [] c = "Cans" -> "cans"
      [] OTHER -> c

\* text.lower()
lower(t) == [i \in 1 .. Len(t) |-> LowerChunk(t[i])]

\* re.sub(r'\W', ' ', text)
sub_non_word(t) == [i \in 1 .. Len(t) |-> IF t[i] \in NonWordChunks THEN " " ELSE t[i]]

\* re.sub(r'\s+', ' ', text)
RECURSIVE sub_spaces(_)
sub_spaces(t) ==
    IF Len(t) <= 1 THEN t
    ELSE IF t[1] = " " /\ t[2] = " " THEN sub_spaces(Tail(t))
    ELSE <<t[1]>> \o sub_spaces(Tail(t))

\* str.strip()
strip(t) ==
    LET a == IF t # <<>> /\ t[1] = " " THEN Tail(t) ELSE t
    IN  IF a # <<>> /\ a[Len(a)] = " " THEN SubSeq(a, 1, Len(a) - 1) ELSE a

\* nltk.word_tokenize on a text of words and single spaces
RECURSIVE word_tokenize(_)
word_tokenize(t) ==
    IF t = <<>> THEN <<>>
    ELSE IF t[1] = " " THEN word_tokenize(Tail(t))
    ELSE IF t[1] = "cannot" THEN <<"can", "not">> \o word_tokenize(Tail(t))
    ELSE <<t[1]>> \o word_tokenize(Tail(t))

\* set(stopwords.words('english')), on the lexicon
stop_words == {"the", "can", "not"}

\* WordNetLemmatizer().lemmatize(word): the noun lemma
lemmatize(word) ==
    CASE word = "cans" -> "can"
      [] word = "foods" -> "food"
      [] OTHER -> word

\* ' '.join(words)
RECURSIVE join(_)
join(words) ==
    IF Len(words) <= 1 THEN words
    ELSE <<words[1], " ">> \o join(Tail(words))

\* [lemmatizer.lemmatize(word) for word in words if word not in stop_words]
RECURSIVE lemmas_of_kept(_)
lemmas_of_kept(words) ==
    IF words = <<>> THEN <<>>
    ELSE IF words[1] \in stop_words THEN lemmas_of_kept(Tail(words))
    ELSE <<lemmatize(words[1])>> \o lemmas_of_kept(Tail(words))

\* without text.lower(): the stopword filter sees the text's own casing
preprocess_text_cased(t) ==
    LET spaced == sub_non_word(t)
        stripped == strip(sub_spaces(spaced))
        words == word_tokenize(stripped)
    IN  join(lemmas_of_kept(words))

preprocess_text(t) ==
    LET lowered == lower(t)
        spaced == sub_non_word(lowered)
        stripped == strip(sub_spaces(spaced))
        words == word_tokenize(stripped)
    IN  join(lemmas_of_kept(words))

MaxChunks == 3

Texts == {t \in UNION {[1 .. n -> Chunks] : n \in 0 .. MaxChunks} : IsText(t)}

InitPreprocess ==
    /\ text \in Texts
    /\ processed_text = Empty
    /\ reprocessed_text = Empty

\* processed = preprocess_text(text)
ApplyPreprocessText ==
    /\ ~Filled(processed_text)
    /\ processed_text' = <<preprocess_text(text)>>
    /\ UNCHANGED <<text, reprocessed_text>>

\* preprocess_text(processed): the normalizer on its own output
ApplyPreprocessTextAgain ==
    /\ Filled(processed_text)
    /\ ~Filled(reprocessed_text)
    /\ reprocessed_text' = <<preprocess_text(Value(processed_text))>>
    /\ UNCHANGED <<text, processed_text>>

(***************************************************************************)
(* Properties of the text normalizer, checked under SpecPreprocess.        *)
(***************************************************************************)
\* C9: preprocess_text is idempotent: a second pass over the result of the
\* first returns it unchanged, removing and changing no token.
C9_PreprocessIdempotent ==
    Filled(reprocessed_text) => Value(reprocessed_text) = Value(processed_text)

TextIdle ==
    /\ text = <<>>
    /\ processed_text = Empty
    /\ reprocessed_text = Empty

(***************************************************************************)
(* Steps 2 to 5: the reviews file, the vectorizer and the classifier.      *)
(*                                                                         *)
(* The reviews file holds partition_size rows sampled from the dataset.    *)
(* Two versions of it stand for the 100000-row samples: like them, each    *)
(* holds more distinct terms than max_features, and max_features (5000 in  *)
(* the notebook) is scaled down with them.                                 *)
(***************************************************************************)
max_features == 2

CorpusIds == {"A", "B"}

Corpus(c) ==
    IF c = "A"
    THEN << [text |-> <<"The", " ", "food", "!", " ", "cold", " ", "food">>, stars |-> 1],
            [text |-> <<"cold", " ", "foods", " ", "late", "!">>, stars |-> 2],
            [text |-> <<"The", " ", "can", "!">>, stars |-> 5] >>
    ELSE << [text |-> <<"Cans", " ", "!", "cans", " ", "late">>, stars |-> 4],
            [text |-> <<"late", " ", "food", " ", "cans">>, stars |-> 4],
            [text |-> <<"cannot", "!">>, stars |-> 3] >>

\* the terms, in the order sorted() gives them
TermOrder == <<"can", "cold", "food", "late">>
\* model.classes_: the labels in the order np.unique gives them
ClassOrder == <<"Negative", "Neutral", "Positive", "Very Negative", "Very Positive">>

PositionIn(order, x) == CHOOSE i \in 1 .. Len(order) : order[i] = x

\* The vectorizer's analyzer on a normalized text: its tokens (each of the
\* lexicon's words has two or more characters, as token_pattern asks).
Tokens(doc) == SelectSeq(doc, LAMBDA c : c # " ")

RECURSIVE CountIn(_, _)
CountIn(term, seq) ==
    IF seq = <<>> THEN 0
    ELSE (IF seq[1] = term THEN 1 ELSE 0) + CountIn(term, Tail(seq))

RECURSIVE CountInDocs(_, _)
CountInDocs(term, docs) ==
    IF docs = <<>> THEN 0
    ELSE CountIn(term, Tokens(docs[1])) + CountInDocs(term, Tail(docs))

TermsOf(docs) == {term \in {TermOrder[i] : i \in 1 .. Len(TermOrder)} : CountInDocs(term, docs) > 0}

Min(a, b) == IF a < b THEN a ELSE b

\* CountVectorizer._limit_features: the max_features terms of the highest
\* term frequency across the corpus; among equal frequencies argsort's order
\* decides, so any of them may be kept.
LimitedVocabularies(docs) ==
    {V \in SUBSET TermsOf(docs) :
        /\ Cardinality(V) = Min(max_features, Cardinality(TermsOf(docs)))
        /\ \A a \in V, b \in TermsOf(docs) \ V : CountInDocs(a, docs) >= CountInDocs(b, docs)}

\* vocabulary_: term -> feature index, the kept terms in sorted order
VocabularyOf(V) == SelectSeq(TermOrder, LAMBDA term : term \in V)

\* One row of the document-term matrix.  A tf-idf weight is the term count
\* times a positive idf, scaled by a positive row norm: the row is held by
\* its counts, which are zero exactly where the weights are.
TransformRow(vocabulary, doc) ==
    [j \in 1 .. Len(vocabulary) |-> CountIn(vocabulary[j], Tokens(doc))]

NoVectorizer == [state |-> "undefined", fit |-> 0, vocabulary |-> <<>>]
\* TfidfVectorizer(max_features=5000)
NewVectorizer == [state |-> "unfitted", fit |-> 0, vocabulary |-> <<>>]
NoFile == [state |-> "missing"]

\* vectorizer.transform(docs): the rows, the vectorizer as it was.
\* NotFittedError when the vectorizer was never fitted.
vectorizer_transform(v, docs) ==
    IF v.state # "fitted"
    THEN [error |-> TRUE, vectorizer |-> v, X |-> <<>>, log |-> <<>>]
    ELSE [error |-> FALSE, vectorizer |-> v,
          X |-> [i \in 1 .. Len(docs) |-> TransformRow(v.vocabulary, docs[i])],
          log |-> <<>>]

\* vectorizer.fit_transform(docs): learns the vocabulary V in generation g,
\* replacing any the vectorizer held, and returns the rows.
vectorizer_fit_transform(v, docs, V, g) ==
    LET fitted == [state |-> "fitted", fit |-> g, vocabulary |-> VocabularyOf(V)]
    IN  [error |-> v.state = "undefined", vectorizer |-> fitted,
         X |-> [i \in 1 .. Len(docs) |-> TransformRow(fitted.vocabulary, docs[i])],
         log |-> <<[fit |-> g, vocabulary |-> fitted.vocabulary]>>]

NoModel == [state |-> "undefined", trained_on |-> 0, n_features |-> 0,
            classes |-> {}, intercept |-> "", coef |-> <<>>]
\* LogisticRegression()
NewModel == [state |-> "unfitted", trained_on |-> 0, n_features |-> 0,
             classes |-> {}, intercept |-> "", coef |-> <<>>]

\* The classifiers model.fit may return for rows of n features with the
\* labels `classes`: a linear classifier whose intercept favours one class
\* and each of whose features favours one class.
FittedModels(g, n, classes) ==
    {[state |-> "fitted", trained_on |-> g, n_features |-> n, classes |-> classes,
      intercept |-> b, coef |-> w] : b \in classes, w \in [1 .. n -> classes]}

RECURSIVE Dot(_, _, _)
\* the decision value of class c on row x: intercept plus weights . x
Dot(m, c, x) ==
    IF x = <<>> THEN (IF m.intercept = c THEN 1 ELSE 0)
    ELSE (IF m.coef[Len(x)] = c THEN x[Len(x)] ELSE 0) + Dot(m, c, SubSeq(x, 1, Len(x) - 1))

\* model.predict on one row: the class of the highest decision value, the
\* first of them in classes_ order.  NotFittedError for a model never
\* fitted, ValueError for a row of another number of features.
predict(m, x) ==
    IF m.state # "fitted" THEN "NotFittedError"
    ELSE IF Len(x) # m.n_features THEN "ValueError"
    ELSE CHOOSE c \in m.classes :
            \A d \in m.classes :
                \/ Dot(m, c, x) > Dot(m, d, x)
                \/ /\ Dot(m, c, x) = Dot(m, d, x)
                   /\ PositionIn(ClassOrder, c) <= PositionIn(ClassOrder, d)

\* sentiment_scores[sentiment]
get_sentiment_score(label) ==
    CASE label = "Very Negative" -> -2
      [] label = "Negative" -> -1
      [] label = "Neutral" -> 0
      [] label = "Positive" -> 1
      [] label = "Very Positive" -> 2

PipeIdle ==
    /\ pc = "idle"
    /\ csv = "none"
    /\ data_text = <<>>
    /\ vectorizer = NoVectorizer
    /\ model = NoModel
    /\ LRM_joblib = NoFile
    /\ vectorizer_joblib = NoFile
    /\ X_sample = <<>>
    /\ predicted_sentiment_label = <<>>
    /\ generation = 0
    /\ fit_log = <<>>

\* The cells at which a run is under way.
Running == {"step3", "step4", "step5", "dump_model", "dump_vectorizer",
            "load_model", "load_vectorizer", "step8", "step9"}
Stopped == {"idle", "done", "failed", "interrupted"}

MaxGenerations == 2

\* A fresh kernel: no name is bound, no column exists.
FreshKernel ==
    /\ vectorizer' = NoVectorizer
    /\ model' = NoModel
    /\ data_text' = <<>>
    /\ stars' = <<>>
    /\ sentiment' = <<>>
    /\ X_sample' = <<>>
    /\ predicted_sentiment_label' = <<>>
    /\ text' = <<>>
    /\ processed_text' = Empty
    /\ sentiment_score' = 0
    /\ star_rating' = 3
    /\ subjectivity_score' = 0
    /\ adjusted_aggregate_score' = Empty

\* Step 2, at the start of a run of all cells: the sample of the dataset is
\* written to the reviews file.
Step2Partition(c) ==
    /\ pc \in Stopped
    /\ generation < MaxGenerations
    /\ csv' = c
    /\ pc' = "step3"
    /\ FreshKernel
    /\ UNCHANGED <<reprocessed_text, LRM_joblib, vectorizer_joblib, generation, fit_log>>

\* Step 3: data = pd.read_csv(...); the text column normalized, the stars
\* column binarized.
Step3Preprocess ==
    /\ pc = "step3"
    /\ data_text' = [i \in 1 .. Len(Corpus(csv)) |-> preprocess_text(Corpus(csv)[i].text)]
    /\ stars' = [i \in 1 .. Len(Corpus(csv)) |-> Corpus(csv)[i].stars]
    /\ sentiment' = [i \in 1 .. Len(Corpus(csv)) |-> binarize_label(Corpus(csv)[i].stars)]
    /\ pc' = "step4"
    /\ UNCHANGED <<scoreVars, textVars, csv, vectorizer, model, LRM_joblib,
                   vectorizer_joblib, X_sample, predicted_sentiment_label,
                   generation, fit_log>>

\* Step 4: a new vectorizer and a new model.
Step4Initialize ==
    /\ pc = "step4"
    /\ vectorizer' = NewVectorizer
    /\ model' = NewModel
    /\ generation' = generation + 1
    /\ pc' = "step5"
    /\ UNCHANGED <<scoreVars, labelVars, textVars, csv, data_text, LRM_joblib,
                   vectorizer_joblib, X_sample, predicted_sentiment_label, fit_log>>

\* train_test_split(X, y, test_size=0.2, random_state=42): the test rows,
\* ceil(0.2 * n) of them, picked by the seeded shuffle.
TestSets(n) == {T \in SUBSET (1 .. n) : Cardinality(T) = (n + 4) \div 5}

\* Step 5: the vocabulary is fitted on data['text'], the rows are split and
\* the model is fitted on the training rows.  model.fit raises ValueError
\* when they hold one class only.  The predictions on the test rows are
\* printed and change nothing.
Step5Train ==
    /\ pc = "step5"
    /\ \E V \in LimitedVocabularies(data_text), T \in TestSets(Len(data_text)) :
          LET r == vectorizer_fit_transform(vectorizer, data_text, V, generation)
              y_train == {sentiment[i] : i \in (1 .. Len(sentiment)) \ T}
          IN  /\ vectorizer' = r.vectorizer
              /\ fit_log' = fit_log \o r.log
              /\ IF Cardinality(y_train) < 2
                 THEN /\ pc' = "failed"
                      /\ UNCHANGED model
                 ELSE /\ pc' = "dump_model"
                      /\ model' \in FittedModels(r.vectorizer.fit,
                                                 Len(r.vectorizer.vocabulary), y_train)
    /\ UNCHANGED <<scoreVars, labelVars, textVars, csv, data_text, LRM_joblib,
                   vectorizer_joblib, X_sample, predicted_sentiment_label, generation>>

\* Step 6, first statement: dump(model, 'LRM.joblib')
Step6DumpModel ==
    /\ pc = "dump_model"
    /\ LRM_joblib' = model
    /\ pc' = "dump_vectorizer"
    /\ UNCHANGED <<scoreVars, labelVars, textVars, csv, data_text, vectorizer, model,
                   vectorizer_joblib, X_sample, predicted_sentiment_label,
                   generation, fit_log>>

\* Step 6, second statement: dump(vectorizer, 'vectorizer.joblib')
Step6DumpVectorizer ==
    /\ pc = "dump_vectorizer"
    /\ vectorizer_joblib' = vectorizer
    /\ pc' = "load_model"
    /\ UNCHANGED <<scoreVars, labelVars, textVars, csv, data_text, vectorizer, model,
                   LRM_joblib, X_sample, predicted_sentiment_label, generation, fit_log>>

\* Step 7, model = load('LRM.joblib'): FileNotFoundError without the file
Step7LoadModel ==
    /\ pc = "load_model"
    /\ IF LRM_joblib = NoFile
       THEN pc' = "failed" /\ UNCHANGED model
       ELSE pc' = "load_vectorizer" /\ model' = LRM_joblib
    /\ UNCHANGED <<scoreVars, labelVars, textVars, csv, data_text, vectorizer,
                   LRM_joblib, vectorizer_joblib, X_sample, predicted_sentiment_label,
                   generation, fit_log>>

\* Step 7, vectorizer = load('vectorizer.joblib')
Step7LoadVectorizer ==
    /\ pc = "load_vectorizer"
    /\ IF vectorizer_joblib = NoFile
       THEN pc' = "failed" /\ UNCHANGED vectorizer
       ELSE pc' = "step8" /\ vectorizer' = vectorizer_joblib
    /\ UNCHANGED <<scoreVars, labelVars, textVars, csv, data_text, model,
                   LRM_joblib, vectorizer_joblib, X_sample, predicted_sentiment_label,
                   generation, fit_log>>

\* Step 8: data = pd.read_csv(...), the raw reviews again, and
\* data.sample(n=num_reviews) of them: one review, num_reviews being 1.
Step8Sample ==
    /\ pc = "step8"
    /\ data_text' = [i \in 1 .. Len(Corpus(csv)) |-> Corpus(csv)[i].text]
    /\ stars' = [i \in 1 .. Len(Corpus(csv)) |-> Corpus(csv)[i].stars]
    /\ sentiment' = <<>>
    /\ \E i \in 1 .. Len(Corpus(csv)) :
          /\ text' = Corpus(csv)[i].text
          /\ star_rating' = Corpus(csv)[i].stars
    /\ pc' = "step9"
    /\ UNCHANGED <<sentiment_score, subjectivity_score, adjusted_aggregate_score,
                   processed_text, reprocessed_text, csv, vectorizer, model,
                   LRM_joblib, vectorizer_joblib, X_sample, predicted_sentiment_label,
                   generation, fit_log>>

\* what TextBlob may say of a review
SampleSubjectivities == {0, One \div 2, One}

\* vectorizer.fit_transform in the place of vectorizer.transform
Step9Refit(v, docs, g) ==
    vectorizer_fit_transform(v, docs, CHOOSE V \in LimitedVocabularies(docs) : TRUE, g)

\* X_sample = vectorizer.transform(sample_data['processed_text'])
Step9Transform(v, docs, g) == vectorizer_transform(v, docs)

\* Step 9: subjectivity, normalization, transform, predict, score.
Step9Results ==
    /\ pc = "step9"
    /\ \E u \in SampleSubjectivities :
          LET processed == preprocess_text(text)
              r == Step9Transform(vectorizer, <<processed>>, generation)
              label == IF r.error THEN "NotFittedError" ELSE predict(model, r.X[1])
          IN  /\ subjectivity_score' = u
              /\ processed_text' = <<processed>>
              /\ vectorizer' = r.vectorizer
              /\ fit_log' = fit_log \o r.log
              /\ IF label \notin Labels
                 THEN /\ pc' = "failed"
                      /\ X_sample' = r.X
                      /\ UNCHANGED <<predicted_sentiment_label, sentiment_score,
                                     adjusted_aggregate_score>>
                 ELSE /\ pc' = "done"
                      /\ X_sample' = r.X
                      /\ predicted_sentiment_label' = <<label>>
                      /\ sentiment_score' = get_sentiment_score(label)
                      /\ adjusted_aggregate_score' =
                            <<calculate_adjusted_aggregate_score(
                                  get_sentiment_score(label), star_rating, u)>>
    /\ UNCHANGED <<star_rating, labelVars, text, reprocessed_text, csv, data_text,
                   model, LRM_joblib, vectorizer_joblib, generation>>

\* The kernel is interrupted, or dies, between two statements.
Interrupt ==
    /\ pc \in Running
    /\ pc' = "interrupted"
    /\ UNCHANGED <<scoreVars, labelVars, textVars, csv, data_text, vectorizer, model,
                   LRM_joblib, vectorizer_joblib, X_sample, predicted_sentiment_label,
                   generation, fit_log>>

\* A later session tests the saved model: Steps 7 to 9 on the files and the
\* reviews file that are there.
RunSavedModel ==
    /\ pc \in Stopped
    /\ csv # "none"
    /\ pc' = "load_model"
    /\ FreshKernel
    /\ UNCHANGED <<reprocessed_text, csv, LRM_joblib, vectorizer_joblib, generation,
                   fit_log>>

Init == ScoreIdle /\ LabelIdle /\ TextIdle /\ PipeIdle

Next ==
    \/ \E c \in CorpusIds : Step2Partition(c)
    \/ Step3Preprocess
    \/ Step4Initialize
    \/ Step5Train
    \/ Step6DumpModel
    \/ Step6DumpVectorizer
    \/ Step7LoadModel
    \/ Step7LoadVectorizer
    \/ Step8Sample
    \/ Step9Results
    \/ Interrupt
    \/ RunSavedModel

Spec == Init /\ [][Next]_vars

(***************************************************************************)
(* Properties of the notebook's run, checked under Spec.                   *)
(***************************************************************************)
Fitted(v) == v.state = "fitted"
Inferred == Filled(predicted_sentiment_label)

\* The vocabulary the classifier was trained against: that of the fit whose
\* rows model.fit was given.
TrainedAgainst(m) ==
    LET i == CHOOSE k \in 1 .. Len(fit_log) : fit_log[k].fit = m.trained_on
    IN  fit_log[i].vocabulary

\* C6: the vectorizer and the classifier used for inference come from the
\* same fit: the pair loaded from the two files is never a vectorizer of one
\* training generation with a classifier trained against another
\* generation's vocabulary, also when a later run's two dumps are
\* interrupted between the first and the second.
C6_InferencePairFromOneFit ==
    (pc = "done" /\ Inferred) =>
        \/ model.trained_on = vectorizer.fit
        \/ TrainedAgainst(model) = vectorizer.vocabulary

Logged(v) == \E i \in 1 .. Len(fit_log) : fit_log[i] = [fit |-> v.fit, vocabulary |-> v.vocabulary]

\* C7: the vocabulary is fitted at most once per generation, before any
\* transform, and frozen afterwards: every fitted vectorizer, in the kernel
\* or in its file, holds exactly the vocabulary and index mapping its
\* generation's one fit gave it, whatever steps ran since (training, save,
\* load, transform of texts with unseen terms), and never more than
\* max_features terms.
C7_VocabularyFrozenAfterFit ==
    /\ \A i, j \in 1 .. Len(fit_log) : fit_log[i].fit = fit_log[j].fit => i = j
    /\ \A v \in {vectorizer, vectorizer_joblib} :
          (v # NoFile /\ Fitted(v)) =>
              /\ Logged(v)
              /\ Len(v.vocabulary) <= max_features
    /\ X_sample # <<>> => Fitted(vectorizer)

\* inference done on a text with a term outside the vocabulary, by a
\* vectorizer that was saved and loaded
C7_Witness ==
    /\ pc = "done"
    /\ Inferred
    /\ vectorizer = vectorizer_joblib
    /\ \E i \in 1 .. Len(Tokens(Value(processed_text))) :
          \A j \in 1 .. Len(vectorizer.vocabulary) :
              vectorizer.vocabulary[j] # Tokens(Value(processed_text))[i]
    /\ Logged(vectorizer)

\* a text that is empty or holds stopwords and non-word characters only
StopwordsOnly(t) ==
    \A i \in 1 .. Len(t) : t[i] \in NonWordChunks \/ LowerChunk(t[i]) \in stop_words

StopwordTexts == {t \in Texts : StopwordsOnly(t)}

ZeroRow(x) == \A j \in 1 .. Len(x) : x[j] = 0

\* Every such text of the bounded domain normalizes to the empty string.
StopwordTextsNormalizeToEmpty == \A t \in StopwordTexts : preprocess_text(t) = <<>>

\* C8: for a text that is empty or holds only stopwords and non-word
\* characters, preprocess_text returns the empty string, the fitted
\* vectorizer transforms it to the all-zero row, and the classifier returns
\* one of the five labels, so the row gets a sentiment score and an adjusted
\* score instead of a failure: with every such text, every loaded pair, and
\* in the row the run scored.
C8_StopwordTextStillScored ==
    /\ StopwordTextsNormalizeToEmpty
    /\ pc \in {"step8", "step9", "done"} =>
          LET r == Step9Transform(vectorizer, <<preprocess_text(<<>>)>>, generation)
          IN  /\ ~r.error
              /\ ZeroRow(r.X[1])
              /\ predict(model, r.X[1]) \in Labels
    /\ (pc \in {"done", "failed"} /\ Filled(processed_text) /\ StopwordsOnly(text)) =>
          /\ pc = "done"
          /\ Value(processed_text) = <<>>
          /\ ZeroRow(X_sample[1])
          /\ Inferred
          /\ Value(predicted_sentiment_label) \in Labels
          /\ sentiment_score = get_sentiment_score(Value(predicted_sentiment_label))
          /\ Filled(adjusted_aggregate_score)

\* a review of stopwords and punctuation, scored
C8_Witness ==
    /\ pc = "done"
    /\ text # <<>>
    /\ StopwordsOnly(text)
    /\ Value(processed_text) = <<>>
    /\ Value(predicted_sentiment_label) \in Labels
    /\ Filled(adjusted_aggregate_score)

InitSpecScore == InitScore /\ LabelIdle /\ TextIdle /\ PipeIdle
NextScore == ApplyAdjustedAggregateScore /\ UNCHANGED <<labelVars, textVars, pipeVars>>
SpecScore == InitSpecScore /\ [][NextScore]_vars

InitSpecBinarize == InitBinarize /\ ScoreIdle /\ TextIdle /\ PipeIdle
NextBinarize == ApplyBinarizeLabel /\ UNCHANGED <<scoreVars, textVars, pipeVars>>
SpecBinarize == InitSpecBinarize /\ [][NextBinarize]_vars

InitSpecPreprocess == InitPreprocess /\ ScoreIdle /\ LabelIdle /\ PipeIdle
NextPreprocess ==
    \/ ApplyPreprocessText /\ UNCHANGED <<scoreVars, labelVars, pipeVars>>
    \/ ApplyPreprocessTextAgain /\ UNCHANGED <<scoreVars, labelVars, pipeVars>>
SpecPreprocess == InitSpecPreprocess /\ [][NextPreprocess]_vars

====
